---- MODULE Spec2Model ----
(***************************************************************************)
(* MAGI code review orchestration: the code_review tool of src/server.py   *)
(* (one gateway session, one review request, the receive loop that         *)
(* aggregates three agents' streamed verdicts) and the caller of           *)
(* src/client.py that bounds the tool call with a timeout.                 *)
(*                                                                         *)
(* Text (message content, accumulated content) is a sequence of one-       *)
(* character strings, so that concatenation and the substring test are     *)
(* computed as Python computes them.  Decisions and the final result are   *)
(* TLA+ strings.  Wall-clock timestamps of log entries are not modelled.   *)
(***************************************************************************)
EXTENDS Integers, Sequences, FiniteSets, TLC

\* ------------------------------------------------------------------ bounds
\* Number of frames websocket.recv() may deliver in one review.
MaxMsgs == 4

\* The same, in the specification with fairness.
MaxLiveMsgs == 3

\* --------------------------------------------------------------- constants
\* server.py:28-32 AGENT_IDS, in declaration order.
AGENT_IDS ==
  << <<"melchior",  "d37c1cc8-bcc4-4b73-9f49-a93a30971f2c">>,
     <<"balthasar", "6634d0ec-d700-4a92-9066-4960a0f11927">>,
     <<"casper",    "89cbe912-25d0-47b0-97da-b25622bfac0d">> >>

\* The keys of magi_state (server.py:65-69), in insertion order.
AgentNames == <<"melchior", "balthasar", "casper">>

Names == {AgentNames[i] : i \in 1..Len(AgentNames)}

\* server.py:34-36 class MAGIDecision
MAGIDecision == [POSITIVE |-> "POSITIVE", NEGATIVE |-> "NEGATIVE"]

\* Python None, the initial value of "decision".
None == "None"

\* The literal "POSITIVE" searched for at server.py:124.
Marker == <<"P", "O", "S", "I", "T", "I", "V", "E">>

\* server.py:130  len(completed_agents) >= 3
AllCompleted == 3

\* server.py:137  positive_count >= 2
MajorityCount == 2

\* ------------------------------------------------------- inputs (bounded)
\* Content fragments the gateway may stream.
Frags ==
  { <<>>,
    <<"P", "O", "S", "I", "T", "I", "V", "E">>,
    <<"N", "E", "G", "A", "T", "I", "V", "E">> }

\* uuid4 values: the request id of this review (server.py:64) and the id of
\* another review whose messages reach the same channel.
RequestId == "req-1"

OtherRequestId == "req-2"

\* An agent id the gateway may send that is not configured in AGENT_IDS.
ForeignAgentId == "00000000-0000-0000-0000-000000000000"

KnownAgentIds == {AGENT_IDS[i][2] : i \in 1..Len(AGENT_IDS)}

\* The argument "code" of the tool call, carried into the result.
Code == "code"

\* ------------------------------------------------- credential generator
\* server.py:26 APP_ID
APP_ID ==
  <<
     "b", "7", "5", "f", "c", "e", "6", "f", "-", "e", "8", "a", "f",
     "-", "4", "2", "0", "7", "-", "9", "c", "3", "2", "-", "f", "8",
     "1", "6", "6", "a", "f", "b", "4", "5", "2", "0" >>

\* server.py:27 APP_SECRET
APP_SECRET ==
  <<
     "m", "a", "g", "i", "-", "g", "a", "t", "e", "w", "a", "y", "-",
     "d", "e", "v", "e", "l", "o", "p", "m", "e", "n", "t", "-", "s",
     "e", "c", "r", "e", "t" >>

\* server.py:47  the divisor of  time.time() // 60
BucketSeconds == 60

\* server.py:50  token_hash[:10]
TokenLength == 10

\* A time bucket one hour wide.
CurrentMinute_hour(t) == t \div 3600

\* server.py:47  int(time.time() // 60), the time in whole seconds
CurrentMinute(t) == t \div BucketSeconds

\* The decimal digits of a natural number, as  f"{current_minute}"  prints it.
RECURSIVE Decimal(_)
Decimal(n) ==
  LET digit == <<"0", "1", "2", "3", "4", "5", "6", "7", "8", "9">>[(n % 10) + 1]
  IN  IF n < 10 THEN <<digit>> ELSE Append(Decimal(n \div 10), digit)

\* server.py:48  f"{APP_ID}{APP_SECRET}{current_minute}"
RawStr(current_minute) == APP_ID \o APP_SECRET \o Decimal(current_minute)

\* server.py:49  hashlib.sha256(raw_str.encode()).hexdigest(), tabulated on
\* the inputs the model reaches.
Sha256Hex(raw_str) ==
  CASE raw_str =
  <<
         "b", "7", "5", "f", "c", "e", "6", "f", "-", "e", "8", "a",
         "f", "-", "4", "2", "0", "7", "-", "9", "c", "3", "2", "-",
         "f", "8", "1", "6", "6", "a", "f", "b", "4", "5", "2", "0",
         "m", "a", "g", "i", "-", "g", "a", "t", "e", "w", "a", "y",
         "-", "d", "e", "v", "e", "l", "o", "p", "m", "e", "n", "t",
         "-", "s", "e", "c", "r", "e", "t", "2", "8", "3", "3", "3",
         "3", "3", "3" >>
       ->
  <<
         "a", "6", "3", "b", "8", "7", "6", "7", "5", "d", "0", "6",
         "f", "3", "2", "2", "9", "d", "9", "3", "c", "f", "c", "4",
         "9", "3", "7", "f", "3", "4", "3", "5", "3", "9", "0", "3",
         "e", "4", "5", "4", "8", "6", "c", "5", "f", "f", "9", "7",
         "7", "1", "e", "a", "9", "a", "a", "9", "a", "3", "9", "f",
         "d", "c", "d", "8" >>
    [] raw_str =
  <<
         "b", "7", "5", "f", "c", "e", "6", "f", "-", "e", "8", "a",
         "f", "-", "4", "2", "0", "7", "-", "9", "c", "3", "2", "-",
         "f", "8", "1", "6", "6", "a", "f", "b", "4", "5", "2", "0",
         "m", "a", "g", "i", "-", "g", "a", "t", "e", "w", "a", "y",
         "-", "d", "e", "v", "e", "l", "o", "p", "m", "e", "n", "t",
         "-", "s", "e", "c", "r", "e", "t", "2", "8", "3", "3", "3",
         "3", "3", "4" >>
       ->
  <<
         "b", "c", "4", "a", "8", "2", "2", "9", "6", "3", "1", "4",
         "b", "9", "e", "a", "d", "9", "d", "a", "4", "e", "f", "2",
         "4", "1", "9", "1", "0", "b", "e", "1", "8", "7", "d", "d",
         "6", "2", "c", "4", "4", "b", "3", "8", "9", "2", "c", "e",
         "f", "c", "8", "2", "1", "5", "2", "5", "3", "e", "e", "9",
         "7", "f", "d", "5" >>
    [] raw_str =
  <<
         "b", "7", "5", "f", "c", "e", "6", "f", "-", "e", "8", "a",
         "f", "-", "4", "2", "0", "7", "-", "9", "c", "3", "2", "-",
         "f", "8", "1", "6", "6", "a", "f", "b", "4", "5", "2", "0",
         "m", "a", "g", "i", "-", "g", "a", "t", "e", "w", "a", "y",
         "-", "d", "e", "v", "e", "l", "o", "p", "m", "e", "n", "t",
         "-", "s", "e", "c", "r", "e", "t", "2", "8", "3", "3", "3",
         "3", "3", "5" >>
       ->
  <<
         "5", "7", "7", "7", "c", "b", "3", "8", "2", "b", "9", "d",
         "7", "e", "c", "1", "0", "4", "c", "f", "8", "a", "a", "3",
         "7", "c", "4", "9", "a", "b", "e", "b", "e", "9", "7", "5",
         "7", "d", "b", "8", "3", "9", "2", "6", "d", "f", "b", "d",
         "3", "1", "c", "d", "4", "6", "c", "0", "0", "e", "7", "f",
         "7", "c", "2", "b" >>
    [] raw_str =
  <<
         "b", "7", "5", "f", "c", "e", "6", "f", "-", "e", "8", "a",
         "f", "-", "4", "2", "0", "7", "-", "9", "c", "3", "2", "-",
         "f", "8", "1", "6", "6", "a", "f", "b", "4", "5", "2", "0",
         "m", "a", "g", "i", "-", "g", "a", "t", "e", "w", "a", "y",
         "-", "d", "e", "v", "e", "l", "o", "p", "m", "e", "n", "t",
         "-", "s", "e", "c", "r", "e", "t", "4", "7", "2", "2", "2", "2" >>
       ->
  <<
         "7", "f", "8", "e", "e", "f", "1", "b", "9", "5", "5", "e",
         "9", "0", "3", "9", "c", "e", "3", "3", "1", "f", "7", "4",
         "5", "b", "a", "9", "3", "7", "8", "c", "9", "e", "0", "e",
         "b", "c", "2", "b", "9", "d", "b", "0", "a", "3", "2", "8",
         "3", "e", "c", "6", "1", "a", "5", "7", "4", "7", "f", "2",
         "1", "7", "3", "2" >>

\* server.py:45-50  _generate_auth_token at time t
GenerateAuthToken(t) ==
  SubSeq(Sha256Hex(RawStr(CurrentMinute(t))), 1, TokenLength)

\* Seconds of clock covered, from a time 20 seconds into its minute.
MaxTimeSpan == 125

\* Values of time.time(), in whole seconds.
Times == {1700000000 + d : d \in 0..MaxTimeSpan}

\* ---------------------------------------------------------- pure functions
\* Python's  sub in s  for strings.
Contains(s, sub) ==
  \E i \in 0..(Len(s) - Len(sub)) : SubSeq(s, i + 1, i + Len(sub)) = sub

\* A lookup that falls back to the first configured agent.
ResolveAgent_first(agent_id) ==
  IF \E i \in 1..Len(AGENT_IDS) : AGENT_IDS[i][2] = agent_id
  THEN LET i == CHOOSE k \in 1..Len(AGENT_IDS) :
                  /\ AGENT_IDS[k][2] = agent_id
                  /\ \A j \in 1..(k - 1) : AGENT_IDS[j][2] # agent_id
       IN  AGENT_IDS[i][1]
  ELSE AGENT_IDS[1][1]

\* server.py:107  next((name for name, aid in AGENT_IDS if aid == agent_id), "unknown")
ResolveAgent(agent_id) ==
  IF \E i \in 1..Len(AGENT_IDS) : AGENT_IDS[i][2] = agent_id
  THEN LET i == CHOOSE k \in 1..Len(AGENT_IDS) :
                  /\ AGENT_IDS[k][2] = agent_id
                  /\ \A j \in 1..(k - 1) : AGENT_IDS[j][2] # agent_id
       IN  AGENT_IDS[i][1]
  ELSE "unknown"

\* A test that takes every message for a message of this review.
IsForRequest_any(response, rid) == TRUE

\* server.py:72-78  the review request; prompt text and timestamp are not
\* modelled.
ReviewRequest(rid) ==
  [type |-> "agent_judgement", request_id |-> rid,
   agents |-> [i \in 1..Len(AGENT_IDS) |-> [agent_id |-> AGENT_IDS[i][2]]]]

\* server.py:86  websockets.connect: the block is entered when the
\* connection is established, otherwise the exception leaves code_review.
ConnectOutcome(ok) ==
  IF ok THEN [pc |-> "send", ws |-> "open"]
        ELSE [pc |-> "raised", ws |-> "none"]

\* A send whose failure is ignored.
SendOutcome_ignored(ok, rid, out) ==
  IF ok THEN [pc |-> "recv", agg |-> "Collecting",
              sent |-> Append(out, ReviewRequest(rid))]
        ELSE [pc |-> "recv", agg |-> "Collecting", sent |-> out]

\* server.py:90-93  websocket.send: the loop is entered when the frame is
\* written, otherwise the exception leaves the connection block.
SendOutcome(ok, rid, out) ==
  IF ok THEN [pc |-> "recv", agg |-> "Collecting",
              sent |-> Append(out, ReviewRequest(rid))]
        ELSE [pc |-> "exit", agg |-> "SendError", sent |-> out]

\* A type test that accepts every message type.
IsAgentResponse_any(msg_type) == TRUE

\* server.py:105  msg_type == "agent_response"
IsAgentResponse(msg_type) == msg_type = "agent_response"

\* server.py:100  the negation of  response.get("request_id") != request_id
IsForRequest(response, rid) == response.request_id = rid

\* An accumulation that puts the new fragment in front.
Accumulate_prepend(old, content) == content \o old

\* server.py:114  agent_state["content"] += content
Accumulate(old, content) == old \o content

\* server.py:115-119  agent_state["messages"].append({...})
LogAppend(messages, rid, content) ==
  Append(messages, [request_id |-> rid, content |-> content])

\* server.py:123-126  the decision of a terminal message; "content" is the
\* local variable of line 108, the fragment of the message being handled.
Classify(content) ==
  IF Contains(content, Marker) THEN MAGIDecision.POSITIVE
                               ELSE MAGIDecision.NEGATIVE

\* server.py:132-135  sum(1 for state in magi_state.values() if ...)
RECURSIVE PositiveCountFrom(_, _)
PositiveCountFrom(ms, i) ==
  IF i > Len(AgentNames) THEN 0
  ELSE (IF ms[AgentNames[i]].decision = MAGIDecision.POSITIVE THEN 1 ELSE 0)
       + PositiveCountFrom(ms, i + 1)

PositiveCount(ms) == PositiveCountFrom(ms, 1)

\* A majority rule that accepts a single positive vote.
Passed_one(positive_count) == positive_count >= 1

\* A majority rule that always passes.
Passed_always(positive_count) == TRUE

\* server.py:137
Passed(positive_count) == positive_count >= MajorityCount

\* server.py:138
FinalResult(p) == IF p THEN MAGIDecision.POSITIVE ELSE MAGIDecision.NEGATIVE

\* A completion test satisfied by two agents.
AllDone_two(completed) == Cardinality(completed) >= 2

\* server.py:130
AllDone(completed) == Cardinality(completed) >= AllCompleted

\* server.py:150-151  reviews.append(f"Reviewer {agent_name}: {state['content']}")
Reviews(ms) ==
  [i \in 1..Len(AgentNames) |-> <<"Reviewer", AgentNames[i], ms[AgentNames[i]].content>>]

\* server.py:153-159
BuildResult(ms, fr, p) ==
  [kind |-> "outcome", reviews |-> Reviews(ms), result |-> fr,
   passed |-> p, magi_state |-> ms, code |-> Code]

\* A block exit that leaves the connection as it is.
AExit_leak(w) == w

\* server.py:86  leaving the  async with websockets.connect(...)  block
\* closes the connection.
AExit(w) == IF w = "open" THEN "closed" ELSE w

\* A timeout handler that hands over what the call has produced.
TimeoutValue_pending(pending) == pending

\* client.py:110-112  on asyncio.TimeoutError the pending value of the call
\* is dropped and TimeoutError is raised.
TimeoutValue(pending) == [kind |-> "none"]

\* A timeout handler that goes back to waiting.
TimeoutNext_retry(at) == at

\* client.py:110-112  raise TimeoutError out of the wait_for handler.
TimeoutNext(at) == "unwinding"

\* No value: the tool call has produced nothing (yet).
NoResult == [kind |-> "none"]

\* ------------------------------------------------------------------- state
VARIABLES
  request_id,        \* server.py:64
  magi_state,        \* server.py:65-69
  completed_agents,  \* server.py:82
  final_result,      \* server.py:83
  passed,            \* server.py:84
  response,          \* server.py:97, the last decoded message
  pc,                \* position of code_review
  agg,               \* how the receive loop stands or ended
  ws,                \* the websocket of server.py:86: "none", "open", "closed"
  closes,            \* number of exits from the connection block
  result,            \* the value returned at server.py:161
  nrecv,             \* frames delivered by websocket.recv()
  rx,                \* per agent, the fragments the channel delivered for it
  cl_pc,             \* position of MAGIClient.review_code
  cl_result,         \* what review_code hands to its caller
  sent,              \* frames written by websocket.send(), server.py:90
  nterm,             \* per agent, the terminal messages the channel delivered
  now,               \* time.time() at two calls of _generate_auth_token
  token,             \* the tokens those calls returned
  rev,               \* the locals of two concurrent calls of code_review
  actor              \* the call that took the last step (0: none)

vars == <<request_id, magi_state, completed_agents, final_result, passed,
          response, pc, agg, ws, closes, result, nrecv, rx, cl_pc, cl_result,
          sent, nterm, now, token, rev, actor>>

\* The state of the credential generator and of the two concurrent calls.
aux == <<now, token, rev, actor>>

srv == <<request_id, magi_state, completed_agents, final_result, passed,
         response, pc, agg, ws, closes, result, nrecv, rx, sent, nterm>>

\* Messages the gateway can put on the channel (section 6 wire format as
\* read at server.py:100-109).
AgentResponses(rid) ==
  [request_id : {rid}, type : {"agent_response"}, agent_id : KnownAgentIds,
   content : Frags, status : {"streaming", "completed"}]

ForeignAgentResponses(rid) ==
  [request_id : {rid}, type : {"agent_response"}, agent_id : {ForeignAgentId},
   content : {Marker}, status : {"completed"}]

OtherTypeMessages(rid) ==
  [request_id : {rid}, type : {"status"}, agent_id : {AGENT_IDS[1][2]},
   content : {Marker}, status : {"completed"}]

\* Messages of another review that reach this channel.
StaleMessages(rid) ==
  [request_id : {OtherRequestId} \ {rid}, type : {"agent_response"},
   agent_id : {AGENT_IDS[1][2]},
   content : {Marker}, status : {"streaming", "completed"}]

Messages(rid) ==
  AgentResponses(rid) \cup ForeignAgentResponses(rid)
    \cup OtherTypeMessages(rid) \cup StaleMessages(rid)

NoResponse == [request_id |-> "", type |-> "", agent_id |-> "",
               content |-> <<>>, status |-> ""]

\* An initial agent state that already holds a negative vote.
InitAgentState_negative ==
  [messages |-> <<>>, decision |-> "NEGATIVE", content |-> <<>>]

InitAgentState == [messages |-> <<>>, decision |-> None, content |-> <<>>]

\* Two concurrent calls of code_review in one server process.
Calls == {1, 2}

\* server.py:64  each call draws its own uuid4.
RequestIdOf(i) == <<RequestId, OtherRequestId>>[i]

\* server.py:64-69,81-84  the locals a call of code_review starts with.
InitLocals(rid) ==
  [request_id |-> rid,
   magi_state |-> [n \in Names |-> InitAgentState],
   completed_agents |-> {},
   final_result |-> "",
   passed |-> FALSE,
   response |-> NoResponse,
   pc |-> "connect",
   agg |-> "Collecting",
   ws |-> "none",
   result |-> NoResult,
   nrecv |-> 0,
   sent |-> <<>>]

Init ==
  /\ request_id = RequestId
  /\ magi_state = [n \in Names |-> InitAgentState]
  /\ completed_agents = {}
  /\ final_result = ""
  /\ passed = FALSE
  /\ response = NoResponse
  /\ pc = "connect"
  /\ agg = "Collecting"
  /\ ws = "none"
  /\ closes = 0
  /\ result = NoResult
  /\ nrecv = 0
  /\ rx = [n \in Names |-> <<>>]
  /\ cl_pc = "calling"
  /\ cl_result = NoResult
  /\ sent = <<>>
  /\ nterm = [n \in Names |-> 0]
  /\ now = [i \in 1..2 |-> 1700000000]
  /\ token = [i \in 1..2 |-> <<>>]
  /\ rev = [i \in Calls |-> InitLocals(RequestIdOf(i))]
  /\ actor = 0

\* ----------------------------------------------------------------- server
\* server.py:80-86  build the url and open the websocket; a failure to
\* connect propagates out of code_review.
Connect ==
  /\ pc = "connect"
  /\ \E ok \in BOOLEAN :
       /\ ws' = ConnectOutcome(ok).ws
       /\ pc' = ConnectOutcome(ok).pc
  /\ UNCHANGED <<request_id, magi_state, completed_agents, final_result,
                 passed, response, agg, closes, result, nrecv, rx,
                 cl_pc, cl_result, sent, nterm>>
  /\ UNCHANGED aux

\* server.py:90  await websocket.send(...); an exception leaves the
\* async with block with the exception pending.
Send ==
  /\ pc = "send"
  /\ \E ok \in BOOLEAN :
       /\ pc' = SendOutcome(ok, request_id, sent).pc
       /\ agg' = SendOutcome(ok, request_id, sent).agg
       /\ sent' = SendOutcome(ok, request_id, sent).sent
  /\ UNCHANGED <<request_id, magi_state, completed_agents, final_result,
                 passed, response, ws, closes, result, nrecv, rx,
                 cl_pc, cl_result, nterm>>
  /\ UNCHANGED aux

\* The fragments the channel has delivered for each agent of this review.
Delivered(m) ==
  IF /\ m.request_id = request_id
     /\ m.type = "agent_response"
     /\ m.agent_id \in KnownAgentIds
  THEN [rx EXCEPT ![ResolveAgent(m.agent_id)] = Append(@, m.content)]
  ELSE rx

\* The terminal messages the channel has delivered for each agent of this
\* review.
DeliveredTerminal(m) ==
  IF /\ m.request_id = request_id
     /\ m.type = "agent_response"
     /\ m.agent_id \in KnownAgentIds
     /\ m.status = "completed"
  THEN [nterm EXCEPT ![ResolveAgent(m.agent_id)] = @ + 1]
  ELSE nterm

\* server.py:113-140  a message of this review of type agent_response for
\* a configured agent.
Update(m, agent_name) ==
  LET content == m.content
      agent_state == magi_state[agent_name]
      appended == [agent_state EXCEPT
                     !.content = Accumulate(@, content),
                     !.messages = LogAppend(@, request_id, content)]
  IN
  IF m.status = "completed"
  THEN LET completed == completed_agents \cup {agent_name}
           ms == [magi_state EXCEPT ![agent_name] =
                    [appended EXCEPT !.decision = Classify(content)]]
       IN  /\ completed_agents' = completed
           /\ magi_state' = ms
           /\ IF AllDone(completed)
              THEN /\ passed' = Passed(PositiveCount(ms))
                   /\ final_result' = FinalResult(Passed(PositiveCount(ms)))
                   /\ agg' = "Done"
                   /\ pc' = "exit"
              ELSE UNCHANGED <<passed, final_result, agg, pc>>
  ELSE /\ magi_state' = [magi_state EXCEPT ![agent_name] = appended]
       /\ UNCHANGED <<completed_agents, passed, final_result, agg, pc>>

\* server.py:96-147  one pass of the receive loop over a decoded message.
Recv ==
  /\ pc = "recv"
  /\ nrecv < MaxMsgs
  /\ \E m \in Messages(request_id) :
       /\ response' = m
       /\ nrecv' = nrecv + 1
       /\ rx' = Delivered(m)
       /\ nterm' = DeliveredTerminal(m)
       /\ IF ~IsForRequest(m, request_id)
          THEN \* line 100-102: continue
               UNCHANGED <<magi_state, completed_agents, passed,
                           final_result, agg, pc>>
          ELSE IF ~IsAgentResponse(m.type)
          THEN \* line 105 is false: next pass of the loop
               UNCHANGED <<magi_state, completed_agents, passed,
                           final_result, agg, pc>>
          ELSE IF ResolveAgent(m.agent_id) \notin DOMAIN magi_state
          THEN \* line 113 raises KeyError, caught at line 145: break
               /\ agg' = "ProcessingError"
               /\ pc' = "exit"
               /\ UNCHANGED <<magi_state, completed_agents, passed,
                              final_result>>
          ELSE Update(m, ResolveAgent(m.agent_id))
  /\ UNCHANGED <<request_id, ws, closes, result, cl_pc, cl_result, sent>>
  /\ UNCHANGED aux

\* What websocket.recv() / json.loads can raise instead of yielding a
\* message, and how the loop ends (server.py:142-147: both handlers break).
RecvFailures ==
  [ConnectionClosedOK    |-> "EndOfStream",
   ConnectionClosedError |-> "ReceiveError",
   OSError               |-> "ReceiveError",
   JSONDecodeError       |-> "ProcessingError"]

RecvFail ==
  /\ pc = "recv"
  /\ \E e \in DOMAIN RecvFailures :
       agg' = RecvFailures[e]
  /\ pc' = "exit"
  /\ UNCHANGED <<request_id, magi_state, completed_agents, final_result,
                 passed, response, ws, closes, result, nrecv, rx,
                 cl_pc, cl_result, sent, nterm>>
  /\ UNCHANGED aux

\* server.py:86  __aexit__ of the websocket context manager, reached by
\* break or by the exception of send.
CloseSession ==
  /\ pc = "exit"
  /\ ws' = AExit(ws)
  /\ closes' = closes + 1
  /\ pc' = IF agg = "SendError" THEN "raised" ELSE "collect"
  /\ UNCHANGED <<request_id, magi_state, completed_agents, final_result,
                 passed, response, agg, result, nrecv, rx, cl_pc, cl_result,
                 sent, nterm>>
  /\ UNCHANGED aux

\* server.py:149-161
Return ==
  /\ pc = "collect"
  /\ result' = BuildResult(magi_state, final_result, passed)
  /\ pc' = "returned"
  /\ UNCHANGED <<request_id, magi_state, completed_agents, final_result,
                 passed, response, agg, ws, closes, nrecv, rx,
                 cl_pc, cl_result, sent, nterm>>
  /\ UNCHANGED aux

\* ----------------------------------------------------------------- client
\* client.py:77-109  the tool call completed within the timeout.
DeliverResult ==
  /\ cl_pc = "calling"
  /\ pc = "returned"
  /\ cl_pc' = "returned"
  /\ cl_result' = result
  /\ UNCHANGED srv
  /\ UNCHANGED aux

\* client.py:115-118  the tool call failed.
DeliverFailure ==
  /\ cl_pc = "calling"
  /\ pc = "raised"
  /\ cl_pc' = "failed"
  /\ cl_result' = NoResult
  /\ UNCHANGED srv
  /\ UNCHANGED aux

\* client.py:77-86,110-112  asyncio.wait_for gives up on the call.
Timeout ==
  /\ cl_pc = "calling"
  /\ cl_pc' = TimeoutNext(cl_pc)
  /\ cl_result' = TimeoutValue(result)
  /\ UNCHANGED srv
  /\ UNCHANGED aux

\* client.py:69-71,113-114  TimeoutError leaves the ClientSession and
\* stdio_client blocks, which ends the server process and with it a tool
\* call still in progress, then reaches the caller.
ClientExit ==
  /\ cl_pc = "unwinding"
  /\ cl_pc' = "TimeoutError"
  /\ IF pc \in {"returned", "raised"}
     THEN UNCHANGED <<pc, ws, closes>>
     ELSE IF pc \in {"send", "recv", "exit"}
     THEN \* inside the connection block of server.py:86
          /\ pc' = "cancelled"
          /\ ws' = AExit(ws)
          /\ closes' = closes + 1
     ELSE /\ pc' = "cancelled"
          /\ UNCHANGED <<ws, closes>>
  /\ UNCHANGED <<request_id, magi_state, completed_agents, final_result,
                 passed, response, agg, result, nrecv, rx, cl_result,
                 sent, nterm>>
  /\ UNCHANGED aux

Next ==
  \/ Connect
  \/ Send
  \/ Recv
  \/ RecvFail
  \/ CloseSession
  \/ Return
  \/ DeliverResult
  \/ DeliverFailure
  \/ Timeout
  \/ ClientExit

Spec == Init /\ [][Next]_vars

\* client.py:77-86  the timer of asyncio.wait_for fires while the call is
\* pending, and the exception then unwinds review_code (client.py:67-118).
RecvLive ==
  /\ nrecv < MaxLiveMsgs
  /\ Recv

NextLive ==
  \/ Connect
  \/ Send
  \/ RecvLive
  \/ RecvFail
  \/ CloseSession
  \/ Return
  \/ DeliverResult
  \/ DeliverFailure
  \/ Timeout
  \/ ClientExit

FairSpec ==
  Init /\ [][NextLive]_vars /\ WF_vars(Timeout) /\ WF_vars(ClientExit)

\* ------------------------------------------------------ token generation
\* The review of Init, with two calls of _generate_auth_token pending at
\* arbitrary times.
TokenInit ==
  /\ request_id = RequestId
  /\ magi_state = [n \in Names |-> InitAgentState]
  /\ completed_agents = {}
  /\ final_result = ""
  /\ passed = FALSE
  /\ response = NoResponse
  /\ pc = "connect"
  /\ agg = "Collecting"
  /\ ws = "none"
  /\ closes = 0
  /\ result = NoResult
  /\ nrecv = 0
  /\ rx = [n \in Names |-> <<>>]
  /\ cl_pc = "calling"
  /\ cl_result = NoResult
  /\ sent = <<>>
  /\ nterm = [n \in Names |-> 0]
  /\ now \in [1..2 -> Times]
  /\ token = [i \in 1..2 |-> <<>>]
  /\ rev = [i \in Calls |-> InitLocals(RequestIdOf(i))]
  /\ actor = 0

\* server.py:45-50,54  one call of _generate_auth_token
GenerateToken ==
  /\ \E i \in 1..2 :
       /\ token[i] = <<>>
       /\ token' = [token EXCEPT ![i] = GenerateAuthToken(now[i])]
  /\ UNCHANGED <<now, srv, cl_pc, cl_result, rev, actor>>

TokenNext == GenerateToken

TokenSpec == TokenInit /\ [][TokenNext]_vars

\* --------------------------------------------------- two concurrent calls
\* Frames received by both calls together.
MaxTwoMsgs == 3

\* One frame for the locals of all calls.
Frame_shared(i) == 1

\* server.py:60-84  request_id, magi_state, completed_agents, final_result,
\* passed and the websocket are locals of the call: each call has its own
\* frame.
Frame(i) == i

Locals(i) == rev[Frame(i)]

Store(i, st) == [rev EXCEPT ![Frame(i)] = st]

\* Messages the gateway can put on the channel of a call: answers to its
\* own request and an answer to the request of the other call.
TwoMessages(rid) ==
  [request_id : {rid}, type : {"agent_response"}, agent_id : KnownAgentIds,
   content : {<<>>, Marker}, status : {"completed"}]
  \cup
  [request_id : {RequestId, OtherRequestId} \ {rid},
   type : {"agent_response"}, agent_id : {AGENT_IDS[1][2]},
   content : {Marker}, status : {"completed"}]

\* server.py:97-140  one pass of the receive loop over message m, on the
\* locals st of a call.
Handle(st, m) ==
  LET st1 == [st EXCEPT !.response = m, !.nrecv = @ + 1]
      agent_name == ResolveAgent(m.agent_id)
  IN
  IF ~IsForRequest(m, st.request_id) THEN st1
  ELSE IF ~IsAgentResponse(m.type) THEN st1
  ELSE IF agent_name \notin DOMAIN st.magi_state
  THEN [st1 EXCEPT !.agg = "ProcessingError", !.pc = "exit"]
  ELSE
    LET appended == [st.magi_state[agent_name] EXCEPT
                       !.content = Accumulate(@, m.content),
                       !.messages = LogAppend(@, st.request_id, m.content)]
    IN
    IF m.status = "completed"
    THEN LET completed == st.completed_agents \cup {agent_name}
             ms == [st.magi_state EXCEPT ![agent_name] =
                      [appended EXCEPT !.decision = Classify(m.content)]]
             st2 == [st1 EXCEPT !.completed_agents = completed,
                                !.magi_state = ms]
         IN  IF AllDone(completed)
             THEN [st2 EXCEPT !.passed = Passed(PositiveCount(ms)),
                              !.final_result = FinalResult(Passed(PositiveCount(ms))),
                              !.agg = "Done",
                              !.pc = "exit"]
             ELSE st2
    ELSE [st1 EXCEPT !.magi_state = [st.magi_state EXCEPT ![agent_name] = appended]]

\* server.py:80-86
TwoConnect(i) ==
  /\ Locals(i).pc = "connect"
  /\ \E ok \in BOOLEAN :
       rev' = Store(i, [Locals(i) EXCEPT !.pc = ConnectOutcome(ok).pc,
                                         !.ws = ConnectOutcome(ok).ws])
  /\ actor' = i

\* server.py:90
TwoSend(i) ==
  /\ Locals(i).pc = "send"
  /\ \E ok \in BOOLEAN :
       LET out == SendOutcome(ok, Locals(i).request_id, Locals(i).sent)
       IN  rev' = Store(i, [Locals(i) EXCEPT !.pc = out.pc, !.agg = out.agg,
                                             !.sent = out.sent])
  /\ actor' = i

\* server.py:96-140
TwoRecv(i) ==
  /\ Locals(i).pc = "recv"
  /\ rev[1].nrecv + rev[2].nrecv < MaxTwoMsgs
  /\ \E m \in TwoMessages(RequestIdOf(i)) :
       rev' = Store(i, Handle(Locals(i), m))
  /\ actor' = i

\* server.py:142-147
TwoRecvFail(i) ==
  /\ Locals(i).pc = "recv"
  /\ \E e \in DOMAIN RecvFailures :
       rev' = Store(i, [Locals(i) EXCEPT !.agg = RecvFailures[e], !.pc = "exit"])
  /\ actor' = i

\* server.py:86  __aexit__
TwoClose(i) ==
  /\ Locals(i).pc = "exit"
  /\ rev' = Store(i, [Locals(i) EXCEPT
                        !.ws = AExit(@),
                        !.pc = IF Locals(i).agg = "SendError" THEN "raised"
                                                              ELSE "collect"])
  /\ actor' = i

\* server.py:149-161
TwoReturn(i) ==
  /\ Locals(i).pc = "collect"
  /\ rev' = Store(i, [Locals(i) EXCEPT
                        !.result = BuildResult(Locals(i).magi_state,
                                               Locals(i).final_result,
                                               Locals(i).passed),
                        !.pc = "returned"])
  /\ actor' = i

\* The event loop runs one call up to its next await.
TwoNext ==
  /\ \E i \in Calls :
       \/ TwoConnect(i)
       \/ TwoSend(i)
       \/ TwoRecv(i)
       \/ TwoRecvFail(i)
       \/ TwoClose(i)
       \/ TwoReturn(i)
  /\ UNCHANGED <<srv, cl_pc, cl_result, now, token>>

TwoSpec == Init /\ [][TwoNext]_vars

\* ------------------------------------------------------------------ types
TypeOK ==
  /\ request_id = RequestId
  /\ completed_agents \subseteq Names
  /\ passed \in BOOLEAN
  /\ final_result \in {"", MAGIDecision.POSITIVE, MAGIDecision.NEGATIVE}
  /\ \A n \in Names :
       magi_state[n].decision \in {None, MAGIDecision.POSITIVE, MAGIDecision.NEGATIVE}
  /\ pc \in {"connect", "send", "recv", "exit", "collect", "returned",
             "raised", "cancelled"}
  /\ agg \in {"Collecting", "Done", "EndOfStream", "ReceiveError",
              "ProcessingError", "SendError"}
  /\ ws \in {"none", "open", "closed"}
  /\ nrecv \in 0..MaxMsgs
  /\ cl_pc \in {"calling", "returned", "failed", "unwinding", "TimeoutError"}

\* ----------------------------------------------------------------- claims
\* Number of agents whose decision is positive.
K == Cardinality({n \in Names : magi_state[n].decision = "POSITIVE"})

\* C1: whenever the aggregation is Done, all three agents have completed
\* with a positive or negative decision, passed is true exactly when at
\* least two of the decisions are positive, and the final decision is
\* positive exactly when passed is true; the returned outcome carries the
\* same values.
C1_MajorityAtDone ==
  agg = "Done" =>
    /\ completed_agents = Names
    /\ \A n \in Names : magi_state[n].decision \in {"POSITIVE", "NEGATIVE"}
    /\ passed <=> (K >= 2)
    /\ (final_result = "POSITIVE") <=> passed
    /\ final_result \in {"POSITIVE", "NEGATIVE"}
    /\ pc = "returned" =>
         /\ result.passed <=> (K >= 2)
         /\ (result.result = "POSITIVE") <=> result.passed
         /\ result.magi_state = magi_state

\* C1 witness: an outcome returned on the Done path with exactly two
\* positive decisions and one negative decision.
C1_Witness ==
  /\ agg = "Done"
  /\ pc = "returned"
  /\ K = 2
  /\ result.passed

\* A step of the receive loop that delivers a message bearing another
\* request id.
StaleDelivered ==
  /\ pc = "recv"
  /\ nrecv' = nrecv + 1
  /\ response'.request_id # request_id

\* C2: a message whose request id differs from the in-flight request id is
\* discarded: the step that handles it changes no agent's content, log,
\* decision or completion, leaves passed and the final result alone, keeps
\* the receive loop running, and the outcome that will be built is the one
\* that would have been built without it.
C2_StaleDiscarded ==
  [][StaleDelivered =>
       /\ UNCHANGED <<magi_state, completed_agents, passed, final_result>>
       /\ UNCHANGED <<agg, pc, ws, result, rx>>
       /\ pc' = "recv" /\ agg' = "Collecting"
       /\ BuildResult(magi_state', final_result', passed')
            = BuildResult(magi_state, final_result, passed)]_vars

\* C2 witness: a terminal message of another review has just been handled
\* while an agent of this review already holds content, and the loop is
\* still receiving.
C2_Witness ==
  /\ response.request_id = OtherRequestId
  /\ response.status = "completed"
  /\ pc = "recv"
  /\ completed_agents = {}
  /\ \E n \in Names : magi_state[n].content # <<>>

\* The agent a handled terminal message of this review is for, if any.
TerminalFor(n) ==
  /\ response.request_id = request_id
  /\ response.type = "agent_response"
  /\ response.status = "completed"
  /\ response.agent_id \in KnownAgentIds
  /\ ResolveAgent(response.agent_id) = n

\* C3: when a terminal message has been handled for an agent, the agent's
\* decision is positive exactly when the marker POSITIVE occurs in the
\* agent's full accumulated content.
C3_DecisionFromAccumulated ==
  \A n \in Names :
    TerminalFor(n) =>
      ((magi_state[n].decision = "POSITIVE")
         <=> Contains(magi_state[n].content, Marker))

\* C4: once an agent's decision is set, no later step changes it.
C4_DecisionNeverChanges ==
  [][\A n \in Names :
       magi_state[n].decision # None =>
         magi_state'[n].decision = magi_state[n].decision]_vars

\* C5: after a clean close of the channel during Collecting an outcome is
\* returned whose passed value is true exactly when at least two agents
\* hold a positive decision.
C5_CleanCloseMajority ==
  (agg = "EndOfStream" /\ pc = "returned") =>
    /\ result.kind = "outcome"
    /\ result.passed <=> (K >= 2)

\* C6: after a receive error or a frame that cannot be processed, no
\* outcome is returned.
C6_FailureNotSwallowed ==
  agg \in {"ReceiveError", "ProcessingError"} =>
    /\ pc # "returned"
    /\ result.kind = "none"
    /\ cl_result.kind = "none"

\* The timeout of the tool call has fired.
TimedOut == cl_pc \in {"unwinding", "TimeoutError"}

\* C7: once the timeout has fired the caller gets TimeoutError and no
\* outcome, whatever the agents had reported: the review never turns back
\* into a returned result.
C7_TimeoutNoOutcome ==
  /\ [](TimedOut => cl_result.kind = "none")
  /\ [][TimedOut => TimedOut']_vars

\* C7 witness: TimeoutError reached the caller while the aggregation was
\* still Collecting with two agents completed.
C7_Witness ==
  /\ cl_pc = "TimeoutError"
  /\ agg = "Collecting"
  /\ Cardinality(completed_agents) = 2
  /\ cl_result.kind = "none"

C9_OutcomeDecisionSet ==
  pc = "returned" =>
    /\ result.result \in {"POSITIVE", "NEGATIVE"}
    /\ (result.result = "POSITIVE") <=> result.passed

\* Concatenation of a sequence of texts, in order.
RECURSIVE Concat(_)
Concat(ss) == IF ss = <<>> THEN <<>> ELSE Head(ss) \o Concat(Tail(ss))

\* The contents of a message log, in order.
LogContents(messages) == [i \in 1..Len(messages) |-> messages[i].content]

\* C10: each agent's accumulated content is the concatenation, in arrival
\* order, of the fragments delivered for it, which are exactly the contents
\* of its message log; a step that delivers nothing for an agent leaves
\* that agent's content and log unchanged.
C10_ContentIsConcatenation ==
  /\ [](\A n \in Names :
          /\ magi_state[n].content = Concat(rx[n])
          /\ LogContents(magi_state[n].messages) = rx[n]
          /\ magi_state[n].content = Concat(LogContents(magi_state[n].messages)))
  /\ [][\A n \in Names :
          rx'[n] = rx[n] =>
            /\ magi_state'[n].content = magi_state[n].content
            /\ magi_state'[n].messages = magi_state[n].messages]_vars

\* C10 witness: an agent received NEGATIVE, then the empty fragment, then
\* POSITIVE, while another agent received a fragment in between.
C10_Witness ==
  \E n \in Names : \E o \in Names \ {n} :
    /\ Len(rx[n]) = 3
    /\ rx[n][1] # rx[n][3] /\ rx[n][1] # <<>> /\ rx[n][3] # <<>>
    /\ magi_state[n].content = rx[n][1] \o rx[n][3]
    /\ Len(rx[o]) = 1

\* C11: a failed open ends the review with a failure before any request is
\* sent or any message received and without an outcome; a failed send after
\* a successful open ends it with a failure, without an outcome and without
\* a pass of the receive loop; the loop is only ever entered after the
\* request has been written.
C11_SetupFailureAborts ==
  /\ (pc = "raised" /\ ws = "none") =>
       /\ sent = <<>>
       /\ nrecv = 0
       /\ agg = "Collecting"
  /\ agg = "SendError" =>
       /\ pc \in {"exit", "raised", "cancelled"}
       /\ sent = <<>>
       /\ nrecv = 0
  /\ pc = "raised" =>
       /\ result.kind = "none"
       /\ cl_result.kind = "none"
       /\ response = NoResponse
       /\ magi_state = [n \in Names |-> InitAgentState]
  /\ cl_pc = "failed" => (pc = "raised" /\ cl_result.kind = "none")
  /\ (pc = "recv" \/ nrecv > 0) => sent = <<ReviewRequest(request_id)>>

\* C11 witness: the send failed after a successful open, the session was
\* closed and the caller holds the failure.
C11_Witness ==
  /\ agg = "SendError"
  /\ pc = "raised"
  /\ ws = "closed"
  /\ cl_pc = "failed"

\* The agents for which the channel delivered a terminal message.
TerminalAgents == {n \in Names : nterm[n] > 0}

\* C13: the aggregation is Done exactly when three distinct agents have
\* received a terminal message; the completed set is the set of those
\* agents however often each was repeated; the loop is receiving only
\* while Collecting, and once it has ended no further message is read.
C13_DoneAtThreeDistinct ==
  /\ [](/\ (agg = "Done") <=> (Cardinality(TerminalAgents) >= 3)
        /\ completed_agents = TerminalAgents
        /\ agg = "Done" => pc # "recv"
        /\ pc = "recv" => (agg = "Collecting" /\ Cardinality(completed_agents) < 3))
  /\ [][agg = "Done" =>
          /\ nrecv' = nrecv
          /\ UNCHANGED <<response, magi_state, completed_agents, agg>>]_vars

\* C13 witness: Done was reached by the fourth message after one agent
\* had sent its terminal message twice.
C13_Witness ==
  /\ agg = "Done"
  /\ nrecv = 4
  /\ \E n \in Names : nterm[n] = 2

\* C14: an agent's decision is set exactly when the agent is completed,
\* that is when a terminal message for it has been processed, in every
\* state and in the returned outcome.
C14_DecisionIffCompleted ==
  /\ \A n \in Names :
       /\ (magi_state[n].decision # None) <=> (n \in completed_agents)
       /\ (magi_state[n].decision # None) <=> (nterm[n] > 0)
       /\ magi_state[n].decision \in {None, "POSITIVE", "NEGATIVE"}
  /\ pc = "returned" =>
       \A n \in Names :
         (result.magi_state[n].decision # None) <=> (n \in completed_agents)

\* C14 witness: an outcome was returned in which one agent is completed,
\* one has streamed content without completing and one is still pending.
C14_Witness ==
  /\ pc = "returned"
  /\ \E a \in Names : \E b \in Names \ {a} : \E c \in Names \ {a, b} :
       /\ result.magi_state[a].decision = "NEGATIVE"
       /\ result.magi_state[b].decision = None
       /\ result.magi_state[b].content # <<>>
       /\ result.magi_state[c].decision = None
       /\ result.magi_state[c].messages = <<>>

\* A step of the receive loop that delivers an agent_response of this
\* review bearing an agent id that is not configured.
ForeignDelivered ==
  /\ pc = "recv"
  /\ nrecv' = nrecv + 1
  /\ response'.request_id = request_id
  /\ response'.type = "agent_response"
  /\ response'.agent_id \notin KnownAgentIds

\* C17: an agent_response of this review for an unknown agent changes no
\* agent state and ends the receive loop at once; the review then returns
\* an outcome with passed false and an empty final decision.
C17_UnknownAgentEndsLoop ==
  /\ [][ForeignDelivered =>
          /\ UNCHANGED <<magi_state, completed_agents, passed, final_result>>
          /\ pc' = "exit"]_vars
  /\ []((/\ response.request_id = request_id
         /\ response.type = "agent_response"
         /\ response.agent_id \notin KnownAgentIds) =>
          /\ pc \in {"exit", "collect", "returned", "cancelled"}
          /\ passed = FALSE
          /\ final_result = ""
          /\ pc = "returned" =>
               (result.kind = "outcome" /\ result.passed = FALSE /\ result.result = ""))

\* C17 witness: two agents had completed with a positive decision when the
\* message for the unknown agent arrived, and the outcome was returned.
C17_Witness ==
  /\ response.request_id = request_id
  /\ response.agent_id = ForeignAgentId
  /\ pc = "returned"
  /\ K = 2
  /\ result.passed = FALSE

\* A step of the receive loop that delivers a message of this review whose
\* type is not agent_response.
OtherTypeDelivered ==
  /\ pc = "recv"
  /\ nrecv' = nrecv + 1
  /\ response'.request_id = request_id
  /\ response'.type # "agent_response"

\* C18: a message of this review whose type is not agent_response changes
\* no agent state, does not count toward completion and leaves the loop
\* receiving.
C18_OtherTypeIgnored ==
  [][OtherTypeDelivered =>
       /\ UNCHANGED <<magi_state, completed_agents, passed, final_result>>
       /\ UNCHANGED <<agg, pc, ws, result, rx, nterm>>
       /\ pc' = "recv" /\ agg' = "Collecting"]_vars

\* C18 witness: a message of another type was handled while two agents
\* were completed, and the loop is still receiving.
C18_Witness ==
  /\ response.request_id = request_id
  /\ response.type = "status"
  /\ pc = "recv"
  /\ Cardinality(completed_agents) = 2

\* C19: an outcome with passed true comes from the Done path, with all
\* three agents completed and at least two positive decisions; an outcome
\* returned after the loop ended otherwise has passed false.
C19_PassedOnlyWhenDone ==
  pc = "returned" =>
    /\ result.kind = "outcome"
    /\ result.passed =>
         /\ agg = "Done"
         /\ completed_agents = Names
         /\ \A n \in Names : result.magi_state[n].decision \in {"POSITIVE", "NEGATIVE"}
         /\ Cardinality({n \in Names :
                           result.magi_state[n].decision = "POSITIVE"}) >= 2
    /\ agg # "Done" => result.passed = FALSE
    /\ cl_pc = "returned" => cl_result = result

\* C19 witness: the connection closed with two positive agents and the
\* returned outcome has passed false.
C19_Witness ==
  /\ pc = "returned"
  /\ agg \in {"EndOfStream", "ReceiveError"}
  /\ K = 2
  /\ result.passed = FALSE
  /\ cl_pc = "returned"

\* review_code has ended: with a value, with a failure or with TimeoutError.
Ended == cl_pc \in {"returned", "failed", "TimeoutError"}

\* C16: every review eventually ends; a review whose session was opened and
\* whose aggregation is still Collecting when it ends, ended with
\* TimeoutError, and the tool call is cancelled by nothing but the timeout.
C16_ReviewTerminates ==
  /\ <>Ended
  /\ []((Ended /\ agg = "Collecting" /\ ws # "none") => cl_pc = "TimeoutError")
  /\ [](pc = "cancelled" => cl_pc = "TimeoutError")

\* C16 witness: two agents completed, the third only streamed, the channel
\* stayed open and the review ended with TimeoutError.
C16_Witness ==
  /\ cl_pc = "TimeoutError"
  /\ pc = "cancelled"
  /\ agg = "Collecting"
  /\ ws = "closed"
  /\ Cardinality(completed_agents) = 2
  /\ \E n \in Names \ completed_agents : magi_state[n].content # <<>>

\* C12: two tokens generated for the same application id and secret are
\* equal exactly when the two times fall into the same 60-second bucket,
\* and each is ten characters long.
C12_TokenPerMinute ==
  \A i \in 1..2 : \A j \in 1..2 :
    (token[i] # <<>> /\ token[j] # <<>>) =>
      /\ Len(token[i]) = 10
      /\ (token[i] = token[j]) <=> ((now[i] \div 60) = (now[j] \div 60))

\* C12 witness: tokens were generated one second before and at a minute
\* boundary and differ.
C12_Witness ==
  /\ now[1] % 60 = 59
  /\ now[2] = now[1] + 1
  /\ token[1] # <<>>
  /\ token[2] # <<>>
  /\ token[1] # token[2]

\* A step in which call i receives a message bearing another request id.
ForeignRequestDelivered(i) ==
  /\ actor' = i
  /\ rev'[i].nrecv = rev[i].nrecv + 1
  /\ rev'[i].response.request_id # rev[i].request_id

\* C15: two concurrent reviews have different request ids; a step of one
\* leaves the locals of the other unchanged; a message bearing the other
\* review's request id changes nothing of the review that receives it but
\* the last message and the frame count; every message a review has logged
\* bears its own request id and its outcome is built from its own state.
C15_ReviewsIndependent ==
  /\ [](/\ rev[1].request_id # rev[2].request_id
        /\ \A i \in Calls :
             /\ \A n \in Names :
                  \A k \in 1..Len(rev[i].magi_state[n].messages) :
                    rev[i].magi_state[n].messages[k].request_id = RequestIdOf(i)
             /\ rev[i].pc = "returned" =>
                  rev[i].result = BuildResult(rev[i].magi_state,
                                              rev[i].final_result,
                                              rev[i].passed))
  /\ [][\A j \in Calls : actor' # j => rev'[j] = rev[j]]_vars
  /\ [][\A i \in Calls :
          ForeignRequestDelivered(i) =>
            rev'[i] = [rev[i] EXCEPT !.response = rev'[i].response,
                                     !.nrecv = @ + 1]]_vars

\* C15 witness: the first review returned an outcome after a message of
\* its own and then a message of the second on its channel, while the
\* second, which has received a message of the first, is still receiving.
C15_Witness ==
  /\ rev[1].pc = "returned"
  /\ rev[1].nrecv = 2
  /\ rev[1].response.request_id = rev[2].request_id
  /\ rev[1].completed_agents # {}
  /\ rev[2].pc = "recv"
  /\ rev[2].nrecv = 1
  /\ rev[2].response.request_id = rev[1].request_id
  /\ rev[2].completed_agents = {}

====
